---- MODULE Spec2Model ----
(***************************************************************************)
(* Model of the real-time gateway of backend/src/socket/socketHandler.js:  *)
(* connection admission (io.use), the connection handler and its inbound   *)
(* event handlers, the typing timers, the fixed-window rate limiter and    *)
(* the registries onlineUsers / typingTimeouts / rateLimits.               *)
(*                                                                         *)
(* The id format check and key.startsWith(userId) are computed character   *)
(* by character, as the code computes them.  Time is in milliseconds.      *)
(*                                                                         *)
(* Admission takes two steps, as in the server: the io.use middleware      *)
(* runs its quota test against io.sockets.sockets (AuthMiddleware), and    *)
(* the server registers the socket there and emits "connection" later      *)
(* (OnConnection); the middlewares of other handshakes may run in between. *)
(* Each handler body is one step (the event loop runs it to completion);   *)
(* an async handler is one step up to each await and one after it.         *)
(* A timer that is due runs before the clock moves past its deadline.      *)
(*                                                                         *)
(* Also modelled: the REST send handlers of                                *)
(* backend/src/controllers/messageController.js, which emit new_message,   *)
(* and the process-level error handlers of backend/src/app.js.             *)
(***************************************************************************)
EXTENDS Integers, Sequences, FiniteSets, TLC

\* ------------------------------------------------------------------ bounds
\* socket ids that may connect under Spec
NumSockets == 2
\* socket ids that may connect under SpecQuota (one more than the quota)
QuotaSockets == 6
\* sockets 1 .. QuotaTypers send typing events under SpecQuota
QuotaTypers == 1
\* the clock stops advancing here under Spec
MaxTime == 7500
\* one step of the clock under Spec
TickMs == 2500
\* the clock stops advancing here under SpecRateLimit
MaxRateTime == 4000
\* one step of the clock under SpecRateLimit
RateTickMs == 1000
\* socket ids that may connect under SpecPresence
PresenceSockets == 3
\* socket ids that may connect under SpecAuth
AuthSockets == 7
\* handshakes with bad credentials that may be made under SpecAuth
MaxBadHandshakes == 2
\* socket ids that may connect under SpecEvents
EventSockets == 2
\* sockets 1 .. EventSenders send events under SpecEvents
EventSenders == 1
\* mark_read handlers of one socket that may await the store at a time
MaxInFlight == 1
\* REST send requests that may be made under SpecRest
NumRequests == 2
\* socket ids that may connect under SpecRest
RestSockets == 2
\* socket ids that may connect under SpecSend
SendSockets == 3
\* the clock stops advancing here under SpecSweep
MaxSweepTime == 240000
\* one step of the clock under SpecSweep
SweepTickMs == 59000
\* socket ids that may connect under SpecChurn
ChurnSockets == 3
\* socket ids that may connect under SpecFanout
FanoutSockets == 3
\* sockets 1 .. FanoutSenders send events under SpecFanout
FanoutSenders == 1
\* REST send requests that may be made under SpecFanout
FanoutRequests == 1

\* ------------------------------------------------------- program constants
\* /^[a-f\d]{24}$/i
MongoIdLen == 24
\* existing.length >= 5
MaxConnectionsPerUser == 5
\* setTimeout(..., 5000)
TypingTimeoutMs == 5000
\* checkRateLimit(userId, "typing", 3, 1000)
TypingMaxRequests == 3
TypingWindowMs == 1000
\* checkRateLimit(userId, "mark_read", 20, 1000)
MarkReadMaxRequests == 20
MarkReadWindowMs == 1000
\* now > entry.resetAt + 60000
SweepGraceMs == 60000
\* setInterval(..., 60000)
SweepIntervalMs == 60000

\* ------------------------------------------------------------------ values
Max2(a, b) == IF a > b THEN a ELSE b

AllSockets ==
  1 .. Max2(Max2(Max2(NumSockets, QuotaSockets), Max2(PresenceSockets, AuthSockets)),
            Max2(Max2(EventSockets, RestSockets), Max2(SendSockets, FanoutSockets)))

HexChars ==
  {"0", "1", "2", "3", "4", "5", "6", "7", "8", "9",
   "a", "b", "c", "d", "e", "f", "A", "B", "C", "D", "E", "F"}

\* a string of n copies of the character c
RECURSIVE Rep(_, _)
Rep(c, n) == IF n = 0 THEN "" ELSE c \o Rep(c, n - 1)

\* the ids of the two users of the model, as issued in their tokens
UserA == Rep("a", MongoIdLen)
UserB == Rep("b", MongoIdLen)
Users == {UserA, UserB}
\* a well-formed id that belongs to no user
UserC == Rep("c", MongoIdLen)

\* JavaScript values that reach the handlers: strings and undefined
JsStr(s) == [t |-> "string", s |-> s]
JsUndefined == [t |-> "undefined", s |-> ""]

\* receiverId payloads: the two users, a short id, an id with a non-hex
\* character, and a missing field
Payloads ==
  {JsStr(UserA), JsStr(UserB), JsStr("abc"),
   JsStr(Rep("g", MongoIdLen)), JsUndefined}

\* mutant: every string passes the format check
isValidMongoIdAnyString(id) == id.t = "string"

\* if (!id || typeof id !== "string") return false; /^[a-f\d]{24}$/i.test(id)
isValidMongoId(id) ==
  /\ id.t = "string"
  /\ Len(id.s) = MongoIdLen
  /\ \A i \in 1 .. Len(id.s) : SubSeq(id.s, i, i) \in HexChars

\* event names, as strings
EvTyping == "typing"
EvMarkRead == "mark_read"

\* `${userId}:${event}`
RateKey(userId, event) == userId \o ":" \o event

\* mutant: every key matches
startsWithAny(key, prefix) == TRUE

\* key.startsWith(prefix)
startsWith(key, prefix) ==
  /\ Len(prefix) <= Len(key)
  /\ SubSeq(key, 1, Len(prefix)) = prefix

VARIABLES
  sockState,       \* socket id -> "none" | "pending" | "open" | "closed" | "rejected"
  sockUser,        \* socket id -> socket.userId ("" while unset)
  sockErr,         \* socket id -> message of the Error passed to next() ("" if none)
  sockCred,        \* socket id -> what was wrong with its handshake ("" before it)
  rooms,           \* the adapter's rooms: set of <<room, socket id>>
  onlineUsers,     \* Map userId -> socketId
  typingTimeouts,  \* Map socket.id -> timer handle
  timers,          \* the runtime's pending setTimeout handles
  rateLimits,      \* Map key -> {count, resetAt}
  now,             \* Date.now()
  emitted,         \* the events emitted by the last step, in order
  lastOp,          \* the handler that ran in the last step, and its outcome
  typingLog,       \* per socket: the stops emitted since its last admitted typing event
  rateLog,         \* per key: when its window was opened and the calls made in it
  procState,       \* the server process: "running" | "shutdown" | "exited"
  markReads,       \* the mark_read handlers awaiting Message.updateMany
  rest,            \* request id -> the REST send request and where its handler is
  messages,        \* the Message collection: the records Message.create has stored
  io,              \* has initializeSocket assigned the module's io
  sweepAt,         \* when the setInterval callback of initializeSocket runs next
  presence,        \* per socket and user: the last presence event about the user
                   \* that the socket was handed ("" if none)
  shadow           \* the limiter run on the same RateCalls without sweeps, and its last result

\* the state outside the gateway's registries
svcVars == <<procState, markReads, rest, messages>>

\* what initializeSocket sets up besides the handlers
envVars == <<io, sweepAt>>

vars ==
  <<sockState, sockUser, sockErr, sockCred, rooms, onlineUsers, typingTimeouts,
    timers, rateLimits, now, emitted, lastOp, typingLog, rateLog, svcVars,
    envVars, presence, shadow>>

\* the ids of the REST requests
Requests == 1 .. NumRequests

\* a request that has not been made; pc is where its handler is ("find":
\* awaiting User.findById, "upload": awaiting uploadToCloudinary, "create":
\* awaiting Message.create, "created": the record is stored, "done": the
\* response was sent), status the HTTP status of the response
NoRequest ==
  [pc |-> "idle", kind |-> "", sender |-> "", receiverId |-> "", status |-> 0]

NoTimer == [sock |-> 0, userId |-> "", receiverId |-> "", deadline |-> 0]

\* quiet: the socket has sent no typing or stop_typing event since its last
\* admitted typing event; stops: the user_stop_typing emitted for it since then;
\* renewed: that typing event found a timer pending
NoLog == [stops |-> 0, quiet |-> FALSE, renewed |-> FALSE]

\* arg: the rate-limit key of a checkRateLimit call; for an event that was
\* dropped, why ("invalid", "rate_limited"); for a disconnect, "typing" if the
\* socket had a typing timer pending
Op(name, s, arg, ok) == [op |-> name, sock |-> s, arg |-> arg, ok |-> ok]

\* ---------------------------------------------------------------- emission
\* io.sockets.sockets: the sockets that are connected
OpenSockets(st) == {s \in AllSockets : st[s] = "open"}

\* the sockets joined to a room
Members(rm, room) == {s \in AllSockets : <<room, s>> \in rm}

\* an emitted event: its name, how it was addressed (kind, room), the
\* sockets it was handed to, and its payload (userId, users, count, error,
\* message)
Ev(event, kind, room, to, userId, users) ==
  [event |-> event, kind |-> kind, room |-> room, to |-> to,
   userId |-> userId, users |-> users, count |-> 0, error |-> "", message |-> 0]

\* io.emit(event, {userId})
EmitAll(st, event, userId) ==
  Ev(event, "all", "", OpenSockets(st), userId, {})

\* io.to(room).emit(event, {userId})
EmitRoom(rm, room, event, userId) ==
  Ev(event, "room", room, Members(rm, room), userId, {})

\* socket.emit(event, {users})
EmitSocket(s, event, users) ==
  Ev(event, "socket", "", {s}, "", users)

\* socket.emit(event, {senderId, count}) / socket.emit(event, {error}) of a
\* handler that has awaited: the socket may have disconnected meanwhile
Reply(st, s, event, senderId, count, error) ==
  [Ev(event, "socket", "", {s} \cap OpenSockets(st), senderId, {})
     EXCEPT !.count = count, !.error = error]

\* io.to(senderId).emit("messages_read", {readBy, count})
MessagesRead(rm, senderId, readBy, count) ==
  [EmitRoom(rm, senderId, "messages_read", readBy) EXCEPT !.count = count]

\* ------------------------------------------------------------ rate limiter
\* mutant: the limit test off by one
checkRateLimitOffByOne(rl, t, userId, event, maxRequests, windowMs) ==
  LET key == RateKey(userId, event) IN
  IF key \notin DOMAIN rl
    THEN [ok |-> TRUE,
          rateLimits |-> [k \in DOMAIN rl \cup {key} |->
             IF k = key THEN [count |-> 1, resetAt |-> t + windowMs] ELSE rl[k]]]
  ELSE IF t > rl[key].resetAt
    THEN [ok |-> TRUE,
          rateLimits |-> [rl EXCEPT ![key] = [count |-> 1, resetAt |-> t + windowMs]]]
  ELSE IF rl[key].count > maxRequests
    THEN [ok |-> FALSE, rateLimits |-> rl]
  ELSE [ok |-> TRUE, rateLimits |-> [rl EXCEPT ![key].count = @ + 1]]

\* mutant: a rejected call restarts the window
checkRateLimitExtends(rl, t, userId, event, maxRequests, windowMs) ==
  LET key == RateKey(userId, event) IN
  IF key \notin DOMAIN rl
    THEN [ok |-> TRUE,
          rateLimits |-> [k \in DOMAIN rl \cup {key} |->
             IF k = key THEN [count |-> 1, resetAt |-> t + windowMs] ELSE rl[k]]]
  ELSE IF t > rl[key].resetAt
    THEN [ok |-> TRUE,
          rateLimits |-> [rl EXCEPT ![key] = [count |-> 1, resetAt |-> t + windowMs]]]
  ELSE IF rl[key].count >= maxRequests
    THEN [ok |-> FALSE, rateLimits |-> [rl EXCEPT ![key].resetAt = t + windowMs]]
  ELSE [ok |-> TRUE, rateLimits |-> [rl EXCEPT ![key].count = @ + 1]]

\* checkRateLimit: the value returned and the map after the call
checkRateLimit(rl, t, userId, event, maxRequests, windowMs) ==
  LET key == RateKey(userId, event) IN
  IF key \notin DOMAIN rl
    THEN [ok |-> TRUE,
          rateLimits |-> [k \in DOMAIN rl \cup {key} |->
             IF k = key THEN [count |-> 1, resetAt |-> t + windowMs] ELSE rl[k]]]
  ELSE IF t > rl[key].resetAt
    THEN [ok |-> TRUE,
          rateLimits |-> [rl EXCEPT ![key] = [count |-> 1, resetAt |-> t + windowMs]]]
  ELSE IF rl[key].count >= maxRequests
    THEN [ok |-> FALSE, rateLimits |-> rl]
  ELSE [ok |-> TRUE, rateLimits |-> [rl EXCEPT ![key].count = @ + 1]]

\* ------------------------------------------------------------- handshakes
\* what a handshake carries: is there a cookie header, does it hold a jwt or
\* token cookie, what jwt.verify does with it, and the id in its claims
Cred(cookie, token, verify, id) ==
  [cookie |-> cookie, token |-> token, verify |-> verify, id |-> id]

ValidCred(u) == Cred(TRUE, TRUE, "ok", JsStr(u))

\* the handshakes tried under Spec
Creds == {ValidCred(UserA), ValidCred(UserB), Cred(FALSE, FALSE, "ok", JsUndefined)}

\* handshakes that fail a check of the middleware: no cookie header, a cookie
\* header without jwt / token, a token whose signature jwt.verify rejects, a
\* token that has expired, and claims whose id is not a well-formed id
BadCreds ==
  {Cred(FALSE, FALSE, "ok", JsUndefined),
   Cred(TRUE, FALSE, "ok", JsUndefined),
   Cred(TRUE, TRUE, "bad_signature", JsUndefined),
   Cred(TRUE, TRUE, "expired", JsStr(UserA)),
   Cred(TRUE, TRUE, "ok", JsStr("abc"))}

\* [...io.sockets.sockets.values()].filter((s) => s.userId === socket.userId)
existing(st, su, userId) == {x \in OpenSockets(st) : su[x] = userId}

\* mutant: the quota test off by one
QuotaReachedOffByOne(st, su, userId) ==
  Cardinality(existing(st, su, userId)) > MaxConnectionsPerUser

\* existing.length >= 5
QuotaReached(st, su, userId) ==
  Cardinality(existing(st, su, userId)) >= MaxConnectionsPerUser

\* next(new Error("Too many active connections"))
QuotaError == "Too many active connections"

\* the message of the Error the middleware passes to next(), "" if it admits
AuthError(st, su, cred) ==
  IF ~cred.cookie THEN "Authentication required"
  ELSE IF ~cred.token THEN "Authentication token missing"
  ELSE IF cred.verify # "ok" THEN "Authentication failed"
  ELSE IF ~isValidMongoId(cred.id) THEN "Invalid token payload"
  ELSE IF QuotaReached(st, su, cred.id.s) THEN QuotaError
  ELSE ""

\* what is wrong with the credentials of a handshake ("" if nothing is)
CredKind(cred) ==
  IF ~cred.cookie THEN "missing_cookie"
  ELSE IF ~cred.token THEN "no_token"
  ELSE IF cred.verify # "ok" THEN cred.verify
  ELSE IF ~isValidMongoId(cred.id) THEN "malformed_id"
  ELSE ""

\* mutant: the handshake goes on whatever the middleware reports
HandshakeFailOpen(err) == "pending"

\* next(new Error(...)) ends the handshake, next() lets it go on
Handshake(err) == IF err = "" THEN "pending" ELSE "rejected"

\* io.use((socket, next) => ...): socket ids are issued in order
AuthMiddleware(s, cred) ==
  /\ sockState[s] = "none"
  /\ IF s = 1 THEN TRUE ELSE sockState[s - 1] # "none"
  /\ LET err == AuthError(sockState, sockUser, cred)
         \* socket.userId is assigned before the quota check
         assigned == cred.cookie /\ cred.token /\ cred.verify = "ok"
                     /\ isValidMongoId(cred.id)
     IN /\ sockState' = [sockState EXCEPT ![s] = Handshake(err)]
        /\ sockErr' = [sockErr EXCEPT ![s] = err]
        /\ sockCred' = [sockCred EXCEPT ![s] = CredKind(cred)]
        /\ sockUser' = [sockUser EXCEPT ![s] = IF assigned THEN cred.id.s ELSE ""]
        /\ lastOp' = Op("auth", s, "", err = "")
  /\ emitted' = <<>>
  /\ UNCHANGED <<rooms, onlineUsers, typingTimeouts, timers, rateLimits, now, typingLog, rateLog, svcVars, envVars, presence, shadow>>

\* mutant: the socket joins the room of every user
joinAll(rm, s, room) == rm \cup {<<u, s>> : u \in Users}

\* socket.join(room)
join(rm, s, room) == rm \cup {<<room, s>>}

\* what each socket knows about each user after it was handed the events evs:
\* offline after user_offline, online after user_online or an online_users
\* snapshot that lists the user
Observed(pr, evs) ==
  [o \in AllSockets |-> [u \in Users |->
     IF \E i \in 1 .. Len(evs) :
          evs[i].event = "user_offline" /\ evs[i].userId = u /\ o \in evs[i].to
       THEN "user_offline"
     ELSE IF \E i \in 1 .. Len(evs) :
               /\ o \in evs[i].to
               /\ \/ evs[i].event = "user_online" /\ evs[i].userId = u
                  \/ evs[i].event = "online_users" /\ u \in evs[i].users
       THEN "user_online"
     ELSE pr[o][u]]]

\* io.on("connection", (socket) => ...): the server registers the socket in
\* io.sockets.sockets and runs the connection handler
OnConnection(s) ==
  /\ sockState[s] = "pending"
  /\ LET userId == sockUser[s]
         st == [sockState EXCEPT ![s] = "open"]
         online == [u \in DOMAIN onlineUsers \cup {userId} |->
                      IF u = userId THEN s ELSE onlineUsers[u]]
     IN /\ sockState' = st
        /\ onlineUsers' = online
        /\ rooms' = join(rooms, s, userId)
        /\ emitted' = <<EmitAll(st, "user_online", userId),
                        EmitSocket(s, "online_users", DOMAIN online)>>
  /\ lastOp' = Op("connection", s, "", TRUE)
  /\ presence' = Observed(presence, emitted')
  /\ UNCHANGED <<sockUser, sockErr, sockCred, typingTimeouts, timers, rateLimits, now,
                 typingLog, rateLog, svcVars, envVars, shadow>>

\* mutant: the previous timer is not cancelled
clearTimeoutForgotten(ts, handle) == ts

\* mutant: the timers of the other sockets are cancelled instead
clearTimeoutOthers(ts, handle) == {h \in ts : h.sock = handle.sock}

\* clearTimeout(handle)
clearTimeout(ts, handle) == ts \ {handle}

\* mutant: the stop callback is scheduled after half the delay
TypingTimerEarly(s, userId, receiverId, t) ==
  [sock |-> s, userId |-> userId, receiverId |-> receiverId,
   deadline |-> t + TypingTimeoutMs \div 2]

\* the handle setTimeout returns for the stop callback of a typing event
TypingTimer(s, userId, receiverId, t) ==
  [sock |-> s, userId |-> userId, receiverId |-> receiverId,
   deadline |-> t + TypingTimeoutMs]

\* mutant: the timers are stored per user, under the user's first socket
TimeoutKeyPerUser(s) ==
  CHOOSE x \in AllSockets :
    /\ sockUser[x] = sockUser[s]
    /\ \A y \in AllSockets : sockUser[y] = sockUser[s] => x <= y

\* the key under which a socket's timer is stored: socket.id
TimeoutKey(s) == s

\* socket.on("typing", ({ receiverId }) => ...)
Typing(s, receiverId) ==
  /\ sockState[s] = "open"
  /\ LET userId == sockUser[s]
         valid == isValidMongoId(receiverId)
         r == checkRateLimit(rateLimits, now, userId, EvTyping,
                             TypingMaxRequests, TypingWindowMs)
         key == TimeoutKey(s)
         existingTimeout == typingTimeouts[key]
         cleared == IF existingTimeout # NoTimer
                      THEN clearTimeout(timers, existingTimeout) ELSE timers
         timeout == TypingTimer(s, userId, receiverId.s, now)
     IN IF ~valid
          THEN /\ emitted' = <<>>
               /\ lastOp' = Op("typing", s, "invalid", FALSE)
               /\ typingLog' = [typingLog EXCEPT ![s] = NoLog]
               /\ UNCHANGED <<typingTimeouts, timers, rateLimits>>
        ELSE IF ~r.ok
          THEN /\ emitted' = <<>>
               /\ lastOp' = Op("typing", s, "rate_limited", FALSE)
               /\ typingLog' = [typingLog EXCEPT ![s] = NoLog]
               /\ rateLimits' = r.rateLimits
               /\ UNCHANGED <<typingTimeouts, timers>>
        ELSE /\ emitted' = <<EmitRoom(rooms, receiverId.s, "user_typing", userId)>>
             /\ lastOp' = Op("typing", s, "", TRUE)
             /\ rateLimits' = r.rateLimits
             /\ timers' = cleared \cup {timeout}
             /\ typingTimeouts' = [typingTimeouts EXCEPT ![key] = timeout]
             /\ typingLog' = [typingLog EXCEPT ![s] =
                  [stops |-> 0, quiet |-> TRUE, renewed |-> existingTimeout # NoTimer]]
  /\ UNCHANGED <<sockState, sockUser, sockErr, sockCred, rooms, onlineUsers, now, svcVars, envVars, presence, shadow>>

\* socket.on("typing", ({ receiverId }) => ...)
OnTyping(s, receiverId) ==
  /\ Typing(s, receiverId)
  /\ UNCHANGED rateLog

\* rateLog after one more typing event of userId was admitted at time t: the
\* events admitted since the first one of a span of TypingWindowMs (counted
\* up to one above the limit)
Admitted(log, userId, t) ==
  LET key == RateKey(userId, EvTyping)
      fresh == key \notin DOMAIN log \/ t > log[key].openedAt + TypingWindowMs
      entry == IF fresh
                 THEN [openedAt |-> t, calls |-> 1, max |-> TypingMaxRequests,
                       windowMs |-> TypingWindowMs]
                 ELSE [log[key] EXCEPT !.calls = IF @ <= TypingMaxRequests THEN @ + 1 ELSE @]
  IN [k \in DOMAIN log \cup {key} |-> IF k = key THEN entry ELSE log[k]]

\* the typing handler, with the admitted events recorded in rateLog
OnTypingLogged(s, receiverId) ==
  /\ Typing(s, receiverId)
  /\ rateLog' = IF lastOp'.ok THEN Admitted(rateLog, sockUser[s], now) ELSE rateLog

\* one more stop emitted for a socket's typing episode (counted up to 2)
LogStop(log) ==
  IF log.quiet THEN [log EXCEPT !.stops = IF @ < 2 THEN @ + 1 ELSE @] ELSE log

\* socket.on("stop_typing", ({ receiverId }) => ...)
OnStopTyping(s, receiverId) ==
  /\ sockState[s] = "open"
  /\ LET userId == sockUser[s]
         key == TimeoutKey(s)
         existingTimeout == typingTimeouts[key]
     IN IF ~isValidMongoId(receiverId)
          THEN /\ emitted' = <<>>
               /\ lastOp' = Op("stop_typing", s, "invalid", FALSE)
               /\ typingLog' = [typingLog EXCEPT ![s] = NoLog]
               /\ UNCHANGED <<typingTimeouts, timers>>
        ELSE /\ IF existingTimeout # NoTimer
                  THEN /\ timers' = clearTimeout(timers, existingTimeout)
                       /\ typingTimeouts' = [typingTimeouts EXCEPT ![key] = NoTimer]
                  ELSE UNCHANGED <<typingTimeouts, timers>>
             /\ emitted' = <<EmitRoom(rooms, receiverId.s, "user_stop_typing", userId)>>
             /\ lastOp' = Op("stop_typing", s, "", TRUE)
             /\ typingLog' = [typingLog EXCEPT ![s] = NoLog]
  /\ UNCHANGED <<sockState, sockUser, sockErr, sockCred, rooms, onlineUsers, rateLimits, now, rateLog, svcVars, envVars, presence, shadow>>

\* the stop callback of a typing event, run by the timer that is due
TimerFire(h) ==
  /\ h \in timers
  /\ now >= h.deadline
  /\ emitted' = <<EmitRoom(rooms, h.receiverId, "user_stop_typing", h.userId)>>
  /\ typingTimeouts' = [typingTimeouts EXCEPT ![TimeoutKey(h.sock)] = NoTimer]
  /\ timers' = timers \ {h}
  /\ lastOp' = Op("timer", h.sock, "", TRUE)
  /\ typingLog' = [typingLog EXCEPT ![h.sock] = LogStop(@)]
  /\ UNCHANGED <<sockState, sockUser, sockErr, sockCred, rooms, onlineUsers, rateLimits, now, rateLog, svcVars, envVars, presence, shadow>>

\* mutant: send_message passes through the rate limiter
SendMessageRateLimited(s) ==
  rateLimits' = checkRateLimit(rateLimits, now, sockUser[s], "send_message",
                               TypingMaxRequests, TypingWindowMs).rateLimits

\* the body of the send_message handler: socketLogger.debug(...) only
SendMessageEffect(s) == UNCHANGED rateLimits

\* socket.on("send_message", () => ...): the event is only logged
OnSendMessage(s) ==
  /\ sockState[s] = "open"
  /\ SendMessageEffect(s)
  /\ emitted' = <<>>
  /\ lastOp' = Op("send_message", s, "", TRUE)
  /\ UNCHANGED <<sockState, sockUser, sockErr, sockCred, rooms, onlineUsers,
                 typingTimeouts, timers, now, typingLog, rateLog, svcVars, envVars, presence, shadow>>

\* the sequence number of a socket's next in-flight mark_read handler
NextInFlight(s) ==
  CHOOSE n \in 1 .. MaxInFlight + 1 : \A m \in markReads : m.sock = s => m.n # n

\* socket.on("mark_read", async ({ senderId }) => ...) up to its await: the
\* rate limiter, the id check and the call of Message.updateMany
OnMarkRead(s, senderId) ==
  /\ sockState[s] = "open"
  /\ Cardinality({m \in markReads : m.sock = s}) < MaxInFlight
  /\ LET userId == sockUser[s]
         r == checkRateLimit(rateLimits, now, userId, EvMarkRead,
                             MarkReadMaxRequests, MarkReadWindowMs)
     IN /\ rateLimits' = r.rateLimits
        /\ IF ~r.ok
             THEN /\ emitted' = <<Reply(sockState, s, "mark_read_error", "", 0,
                                        "Rate limit exceeded")>>
                  /\ lastOp' = Op("mark_read", s, "rate_limited", FALSE)
                  /\ UNCHANGED markReads
           ELSE IF ~isValidMongoId(senderId)
             THEN /\ emitted' = <<Reply(sockState, s, "mark_read_error", "", 0,
                                        "Invalid sender ID")>>
                  /\ lastOp' = Op("mark_read", s, "invalid", FALSE)
                  /\ UNCHANGED markReads
           ELSE /\ emitted' = <<>>
                /\ lastOp' = Op("mark_read", s, "", TRUE)
                /\ markReads' = markReads \cup
                     {[sock |-> s, userId |-> userId, senderId |-> senderId.s,
                       n |-> NextInFlight(s)]}
  /\ UNCHANGED <<sockState, sockUser, sockErr, sockCred, rooms, onlineUsers,
                 typingTimeouts, timers, now, typingLog, rateLog, procState, rest,
                 messages, envVars, presence, shadow>>

\* what Message.updateMany may do: resolve with a modifiedCount, or reject
StoreOutcomes ==
  {[ok |-> TRUE, count |-> 0], [ok |-> TRUE, count |-> 1], [ok |-> FALSE, count |-> 0]}

\* mutant: the sender is notified although the store failed
MarkReadNoticesAlways(rm, st, m, result) ==
  IF result.ok
    THEN <<MessagesRead(rm, m.senderId, m.userId, result.count),
           Reply(st, m.sock, "mark_read_success", m.senderId, result.count, "")>>
    ELSE <<MessagesRead(rm, m.senderId, m.userId, result.count),
           Reply(st, m.sock, "mark_read_error", "", 0, "store")>>

\* what the mark_read handler emits after its await: messages_read to the
\* sender's room and then mark_read_success, or mark_read_error from the
\* catch block (err.message is the store's)
MarkReadNotices(rm, st, m, result) ==
  IF result.ok
    THEN <<MessagesRead(rm, m.senderId, m.userId, result.count),
           Reply(st, m.sock, "mark_read_success", m.senderId, result.count, "")>>
    ELSE <<Reply(st, m.sock, "mark_read_error", "", 0, "store")>>

\* the mark_read handler after its await: the notifications, or the catch block
MarkReadDone(m, result) ==
  /\ m \in markReads
  /\ markReads' = markReads \ {m}
  /\ emitted' = MarkReadNotices(rooms, sockState, m, result)
  /\ lastOp' = Op("mark_read_done", m.sock, IF result.ok THEN "" ELSE "store", result.ok)
  /\ UNCHANGED <<sockState, sockUser, sockErr, sockCred, rooms, onlineUsers,
                 typingTimeouts, timers, rateLimits, now, typingLog, rateLog,
                 procState, rest, messages, envVars, presence, shadow>>

\* the events whose handlers destructure their payload
PayloadEvents == {"typing", "stop_typing", "mark_read"}

\* gracefulShutdown(signal): the server stops listening and will exit
gracefulShutdown(p) == IF p = "exited" THEN p ELSE "shutdown"

\* an event sent without payload (or with null): destructuring ({ receiverId })
\* throws a TypeError before the handler's first statement; it surfaces as
\* uncaughtException (typing, stop_typing) or unhandledRejection (mark_read,
\* an async handler), and both call gracefulShutdown
OnMissingPayload(s, event) ==
  /\ sockState[s] = "open"
  /\ procState' = gracefulShutdown(procState)
  /\ emitted' = <<>>
  /\ lastOp' = Op(event, s, "throws", FALSE)
  /\ UNCHANGED <<sockState, sockUser, sockErr, sockCred, rooms, onlineUsers,
                 typingTimeouts, timers, rateLimits, now, typingLog, rateLog,
                 markReads, rest, messages, envVars, presence, shadow>>

\* process.exit(...) at the end of gracefulShutdown: the connections and the
\* module state go with the process, the Message collection stays
ProcessExit ==
  /\ procState = "shutdown"
  /\ procState' = "exited"
  /\ sockState' = [s \in AllSockets |->
                     IF sockState[s] \in {"pending", "open"} THEN "closed" ELSE sockState[s]]
  /\ rooms' = {}
  /\ onlineUsers' = <<>>
  /\ typingTimeouts' = [s \in AllSockets |-> NoTimer]
  /\ timers' = {}
  /\ rateLimits' = <<>>
  /\ markReads' = {}
  /\ emitted' = <<>>
  /\ lastOp' = Op("exit", 0, "", TRUE)
  /\ typingLog' = [s \in AllSockets |-> NoLog]
  /\ UNCHANGED <<sockUser, sockErr, sockCred, now, rateLog, rest, messages, envVars, presence, shadow>>

\* mutant: nothing is sent to a user who has no connection
sendToUserIfOnline(ready, rm, userId, event) ==
  IF ~ready \/ Members(rm, userId) = {}
    THEN [ret |-> FALSE, emitted |-> <<>>]
    ELSE [ret |-> TRUE, emitted |-> <<EmitRoom(rm, userId, event, "")>>]

\* export const sendToUser = (userId, event, data) => ...: the value returned
\* and the events emitted
sendToUser(ready, rm, userId, event) ==
  IF ~ready
    THEN [ret |-> FALSE, emitted |-> <<>>]
    ELSE [ret |-> TRUE, emitted |-> <<EmitRoom(rm, userId, event, "")>>]

\* a call of sendToUser by the rest of the backend
SendToUser(userId, event) ==
  /\ LET r == sendToUser(io, rooms, userId, event)
     IN /\ emitted' = r.emitted
        /\ lastOp' = Op("sendToUser", 0, userId, r.ret)
  /\ UNCHANGED <<sockState, sockUser, sockErr, sockCred, rooms, onlineUsers,
                 typingTimeouts, timers, rateLimits, now, typingLog, rateLog, svcVars,
                 envVars, presence, shadow>>

\* export const initializeSocket = (httpServer) => ...: io is created, the
\* handlers are registered and the sweep's interval timer is started
InitializeSocket ==
  /\ ~io
  /\ io' = TRUE
  /\ sweepAt' = now + SweepIntervalMs
  /\ emitted' = <<>>
  /\ lastOp' = Op("initializeSocket", 0, "", TRUE)
  /\ UNCHANGED <<sockState, sockUser, sockErr, sockCred, rooms, onlineUsers,
                 typingTimeouts, timers, rateLimits, now, typingLog, rateLog, svcVars,
                 presence, shadow>>

\* mutant: an entry is removed as soon as its window has expired
StaleNoGrace(entry, t) == t > entry.resetAt

\* mutant: an entry is removed up to the grace period before its window expires
StaleEarly(entry, t) == t + SweepGraceMs > entry.resetAt

\* now > entry.resetAt + 60000
Stale(entry, t) == t > entry.resetAt + SweepGraceMs

\* rateLimits after the sweep's loop
Swept(rl, t) == [k \in {x \in DOMAIN rl : ~Stale(rl[x], t)} |-> rl[k]]

\* the callback of setInterval(..., 60000), run when its timer is due
Sweep ==
  /\ io
  /\ now >= sweepAt
  /\ rateLimits' = Swept(rateLimits, now)
  /\ sweepAt' = sweepAt + SweepIntervalMs
  /\ emitted' = <<>>
  /\ lastOp' = Op("sweep", 0, "", TRUE)
  /\ UNCHANGED <<sockState, sockUser, sockErr, sockCred, rooms, onlineUsers,
                 typingTimeouts, timers, now, typingLog, rateLog, svcVars, io,
                 presence, shadow>>

\* ----------------------------------------------------------- REST send path
\* req.file of an image request: acceptable, absent, of a type that is not
\* allowed, larger than 5 MB
Files == {"ok", "none", "bad_type", "too_large"}

\* the response is sent and the handler returns
Respond(req, status) == [req EXCEPT !.pc = "done", !.status = status]

\* sendMessage / sendImageMessage up to the first await: the request has
\* passed the route's authentication and body validation; an image request
\* is answered with 400 unless its file is acceptable
RestSend(r, kind, sender, receiverId, file) ==
  /\ rest[r].pc = "idle"
  /\ IF r = 1 THEN TRUE ELSE rest[r - 1].pc # "idle"
  /\ LET req == [pc |-> "find", kind |-> kind, sender |-> sender,
                 receiverId |-> receiverId, status |-> 0]
     IN rest' = [rest EXCEPT ![r] =
                   IF kind = "image" /\ file # "ok" THEN Respond(req, 400) ELSE req]
  /\ emitted' = <<>>
  /\ lastOp' = Op("rest_send", 0, "", kind = "text" \/ file = "ok")
  /\ UNCHANGED <<sockState, sockUser, sockErr, sockCred, rooms, onlineUsers,
                 typingTimeouts, timers, rateLimits, now, typingLog, rateLog,
                 procState, markReads, messages, envVars, presence, shadow>>

\* User.findById(receiverId).lean() of the User collection, which holds the
\* two users: the document, or null
findById(receiverId) == IF receiverId \in Users THEN "found" ELSE "null"

\* the handler after await User.findById: 404 if there is no such user, 500
\* from the catch block if the query failed
RestFound(r, dbOk) ==
  /\ rest[r].pc = "find"
  /\ rest' = [rest EXCEPT ![r] =
       IF ~dbOk THEN Respond(@, 500)
       ELSE IF findById(@.receiverId) = "null" THEN Respond(@, 404)
       ELSE [@ EXCEPT !.pc = IF rest[r].kind = "image" THEN "upload" ELSE "create"]]
  /\ emitted' = <<>>
  /\ lastOp' = Op("rest_find", 0, "", dbOk)
  /\ UNCHANGED <<sockState, sockUser, sockErr, sockCred, rooms, onlineUsers,
                 typingTimeouts, timers, rateLimits, now, typingLog, rateLog,
                 procState, markReads, messages, envVars, presence, shadow>>

\* sendImageMessage after await uploadToCloudinary: 500 if the upload failed
RestUploaded(r, ok) ==
  /\ rest[r].pc = "upload"
  /\ rest' = [rest EXCEPT ![r] = IF ok THEN [@ EXCEPT !.pc = "create"] ELSE Respond(@, 500)]
  /\ emitted' = <<>>
  /\ lastOp' = Op("rest_upload", 0, "", ok)
  /\ UNCHANGED <<sockState, sockUser, sockErr, sockCred, rooms, onlineUsers,
                 typingTimeouts, timers, rateLimits, now, typingLog, rateLog,
                 procState, markReads, messages, envVars, presence, shadow>>

\* the record Message.create stores for a request
MessageOf(r, req) ==
  [id |-> r, senderId |-> req.sender, receiverId |-> req.receiverId, kind |-> req.kind]

\* Message.create in the store: the record is stored, or the call fails and
\* the catch block answers 500
RestCreate(r, ok) ==
  /\ rest[r].pc = "create"
  /\ IF ok
       THEN /\ messages' = messages \cup {MessageOf(r, rest[r])}
            /\ rest' = [rest EXCEPT ![r].pc = "created"]
       ELSE /\ rest' = [rest EXCEPT ![r] = Respond(@, 500)]
            /\ UNCHANGED messages
  /\ emitted' = <<>>
  /\ lastOp' = Op("rest_create", 0, "", ok)
  /\ UNCHANGED <<sockState, sockUser, sockErr, sockCred, rooms, onlineUsers,
                 typingTimeouts, timers, rateLimits, now, typingLog, rateLog,
                 procState, markReads, envVars, presence, shadow>>

\* mutant: the message is also echoed to the sender's room
NewMessageEcho(rm, r, req) ==
  <<[EmitRoom(rm, req.receiverId, "new_message", req.sender) EXCEPT !.message = r],
    [EmitRoom(rm, req.sender, "new_message", req.sender) EXCEPT !.message = r]>>

\* const io = getIO(); if (io) io.to(receiverId.toString()).emit(
\*   "new_message", { message, from: senderId.toString() })
\* (io is set by initializeSocket before the server listens)
NewMessage(rm, r, req) ==
  <<[EmitRoom(rm, req.receiverId, "new_message", req.sender) EXCEPT !.message = r]>>

\* the handler after await Message.create: the broadcast and the 201 response
RestEmit(r) ==
  /\ rest[r].pc = "created"
  /\ rest' = [rest EXCEPT ![r] = Respond(@, 201)]
  /\ emitted' = NewMessage(rooms, r, rest[r])
  /\ lastOp' = Op("rest_emit", 0, "", TRUE)
  /\ UNCHANGED <<sockState, sockUser, sockErr, sockCred, rooms, onlineUsers,
                 typingTimeouts, timers, rateLimits, now, typingLog, rateLog,
                 procState, markReads, messages, envVars, presence, shadow>>

\* rateLimits after: for (const key of rateLimits.keys())
\*   if (key.startsWith(userId)) rateLimits.delete(key)
CleanupRateLimits(rl, userId) ==
  [k \in {x \in DOMAIN rl : ~startsWith(x, userId)} |-> rl[k]]

\* onlineUsers.delete(userId)
OnlineDelete(online, userId) ==
  [u \in DOMAIN online \ {userId} |-> online[u]]

\* the presence events of a disconnect: io.emit("user_offline", { userId })
OfflineEvents(st, su, userId) == <<EmitAll(st, "user_offline", userId)>>

\* mutant: disconnect leaves the socket's typing timer alone
CleanupTypingSkipped(tt, ts, s) == [typingTimeouts |-> tt, timers |-> ts]

\* typingTimeouts and the pending timers after: if (typingTimeout) {
\*   clearTimeout(typingTimeout); typingTimeouts.delete(socket.id) }
CleanupTyping(tt, ts, s) ==
  LET typingTimeout == tt[TimeoutKey(s)] IN
  IF typingTimeout # NoTimer
    THEN [typingTimeouts |-> [tt EXCEPT ![TimeoutKey(s)] = NoTimer],
          timers |-> clearTimeout(ts, typingTimeout)]
    ELSE [typingTimeouts |-> tt, timers |-> ts]

\* socket.on("disconnect", (reason) => ...): the server has removed the socket
\* from io.sockets.sockets and from its rooms when the handler runs
OnDisconnect(s) ==
  /\ sockState[s] = "open"
  /\ LET userId == sockUser[s]
         st == [sockState EXCEPT ![s] = "closed"]
         cleaned == CleanupTyping(typingTimeouts, timers, s)
     IN /\ sockState' = st
        /\ rooms' = {m \in rooms : m[2] # s}
        /\ onlineUsers' = OnlineDelete(onlineUsers, userId)
        /\ emitted' = OfflineEvents(st, sockUser, userId)
        /\ typingTimeouts' = cleaned.typingTimeouts
        /\ timers' = cleaned.timers
        /\ rateLimits' = CleanupRateLimits(rateLimits, userId)
        /\ lastOp' = Op("disconnect", s,
                         IF typingTimeouts[TimeoutKey(s)] # NoTimer THEN "typing" ELSE "",
                         TRUE)
  /\ typingLog' = [typingLog EXCEPT ![s] = NoLog]
  /\ presence' = Observed(presence, emitted')
  /\ UNCHANGED <<sockUser, sockErr, sockCred, now, rateLog, svcVars, envVars, shadow>>

\* the clock advances by one step, or up to the deadline of the next timer
\* (a typing timer or the sweep's interval timer) if that comes first: a timer
\* that is due runs before the clock passes it
Tick(limit, step) ==
  /\ now + step <= limit
  /\ \A h \in timers : h.deadline > now
  /\ sweepAt > now
  /\ LET due == ({h.deadline : h \in timers} \cup {sweepAt}) \cap (now .. now + step)
     IN now' = IF due = {} THEN now + step
               ELSE CHOOSE d \in due : \A e \in due : d <= e
  /\ emitted' = <<>>
  /\ lastOp' = Op("tick", 0, "", TRUE)
  /\ UNCHANGED <<sockState, sockUser, sockErr, sockCred, rooms, onlineUsers, typingTimeouts,
                 timers, rateLimits, typingLog, rateLog, svcVars, envVars, presence, shadow>>

\* ------------------------------------------------------------------- specs
\* the module state of socketHandler.js with no connection made yet
Loaded(ready, sweep) ==
  /\ sockState = [s \in AllSockets |-> "none"]
  /\ sockUser = [s \in AllSockets |-> ""]
  /\ sockErr = [s \in AllSockets |-> ""]
  /\ sockCred = [s \in AllSockets |-> ""]
  /\ rooms = {}
  /\ onlineUsers = <<>>
  /\ typingTimeouts = [s \in AllSockets |-> NoTimer]
  /\ timers = {}
  /\ rateLimits = <<>>
  /\ now = 0
  /\ emitted = <<>>
  /\ lastOp = Op("init", 0, "", TRUE)
  /\ typingLog = [s \in AllSockets |-> NoLog]
  /\ rateLog = <<>>
  /\ procState = "running"
  /\ markReads = {}
  /\ rest = [r \in Requests |-> NoRequest]
  /\ messages = {}
  /\ io = ready
  /\ sweepAt = sweep
  /\ presence = [o \in AllSockets |-> [u \in Users |-> ""]]
  /\ shadow = [rateLimits |-> <<>>, ok |-> TRUE]

\* the state after initializeSocket, called when app.js is loaded
Init == Loaded(TRUE, SweepIntervalMs)

\* the state after socketHandler.js is loaded, before initializeSocket: io
\* is undefined and no interval timer exists (sweepAt 0)
InitModule == Loaded(FALSE, 0)

\* the gateway with two users
Next ==
  \/ \E s \in 1 .. NumSockets, cred \in Creds : AuthMiddleware(s, cred)
  \/ \E s \in 1 .. NumSockets : OnConnection(s)
  \/ \E s \in 1 .. NumSockets, receiverId \in Payloads : OnTyping(s, receiverId)
  \/ \E s \in 1 .. NumSockets, receiverId \in Payloads : OnStopTyping(s, receiverId)
  \/ \E s \in 1 .. NumSockets : OnDisconnect(s)
  \/ \E h \in timers : TimerFire(h)
  \/ Tick(MaxTime, TickMs)

Spec == Init /\ [][Next]_vars

\* admission of the connections of one user, who types to itself or to UserB
NextQuota ==
  \/ \E s \in 1 .. QuotaSockets : AuthMiddleware(s, ValidCred(UserA))
  \/ \E s \in 1 .. QuotaSockets : OnConnection(s)
  \/ \E s \in 1 .. QuotaTypers : OnTyping(s, JsStr(UserA))
  \/ \E s \in 1 .. QuotaSockets : OnDisconnect(s)

SpecQuota == Init /\ [][NextQuota]_vars

\* connections of the two users coming and going
NextPresence ==
  \/ \E s \in 1 .. PresenceSockets, u \in Users : AuthMiddleware(s, ValidCred(u))
  \/ \E s \in 1 .. PresenceSockets : OnConnection(s)
  \/ \E s \in 1 .. PresenceSockets : OnDisconnect(s)

SpecPresence == Init /\ [][NextPresence]_vars

\* handshakes of one user with good and bad credentials
NextAuth ==
  \/ \E s \in 1 .. AuthSockets : AuthMiddleware(s, ValidCred(UserA))
  \/ \E s \in 1 .. AuthSockets, cred \in BadCreds :
       /\ Cardinality({x \in AllSockets : sockCred[x] # ""}) < MaxBadHandshakes
       /\ AuthMiddleware(s, cred)
  \/ \E s \in 1 .. AuthSockets : OnConnection(s)

SpecAuth == Init /\ [][NextAuth]_vars

\* the inbound events of one connection while another user comes and goes
NextEvents ==
  \/ /\ procState # "exited"
     /\ \/ \E s \in 1 .. EventSockets :
             AuthMiddleware(s, ValidCred(IF s <= EventSenders THEN UserA ELSE UserB))
        \/ \E s \in 1 .. EventSockets : OnConnection(s)
        \/ \E s \in 1 .. EventSockets : OnDisconnect(s)
        \/ \E s \in 1 .. EventSenders, receiverId \in Payloads : OnTyping(s, receiverId)
        \/ \E s \in 1 .. EventSenders, receiverId \in Payloads : OnStopTyping(s, receiverId)
        \/ \E s \in 1 .. EventSenders, senderId \in Payloads : OnMarkRead(s, senderId)
        \/ \E m \in markReads, result \in StoreOutcomes : MarkReadDone(m, result)
        \/ \E s \in 1 .. EventSenders : OnSendMessage(s)
        \/ \E s \in 1 .. EventSenders, event \in PayloadEvents : OnMissingPayload(s, event)
  \/ ProcessExit

SpecEvents == Init /\ [][NextEvents]_vars

\* mark_read events of two users
NextMarkRead ==
  \/ \E s \in 1 .. EventSockets :
       AuthMiddleware(s, ValidCred(IF s <= EventSenders THEN UserA ELSE UserB))
  \/ \E s \in 1 .. EventSockets : OnConnection(s)
  \/ \E s \in 1 .. EventSockets : OnDisconnect(s)
  \/ \E s \in 1 .. EventSockets, senderId \in Payloads : OnMarkRead(s, senderId)
  \/ \E m \in markReads, result \in StoreOutcomes : MarkReadDone(m, result)

SpecMarkRead == Init /\ [][NextMarkRead]_vars

\* messages sent over REST by UserA while connections come and go
NextRest ==
  \/ \E s \in 1 .. RestSockets :
       AuthMiddleware(s, ValidCred(IF s = 1 THEN UserA ELSE UserB))
  \/ \E s \in 1 .. RestSockets : OnConnection(s)
  \/ \E s \in 1 .. RestSockets : OnDisconnect(s)
  \/ \E r \in Requests, kind \in {"text", "image"}, receiverId \in {UserB, UserC},
        file \in Files : RestSend(r, kind, UserA, receiverId, file)
  \/ \E r \in Requests, dbOk \in BOOLEAN : RestFound(r, dbOk)
  \/ \E r \in Requests, ok \in BOOLEAN : RestUploaded(r, ok)
  \/ \E r \in Requests, ok \in BOOLEAN : RestCreate(r, ok)
  \/ \E r \in Requests : RestEmit(r)

SpecRest == Init /\ [][NextRest]_vars

\* the events sendToUser is called with
SendEvents == {"notification"}

\* sendToUser called before and after initializeSocket, for users with and
\* without connections
NextSend ==
  \/ InitializeSocket
  \/ \E s \in 1 .. SendSockets, u \in Users : io /\ AuthMiddleware(s, ValidCred(u))
  \/ \E s \in 1 .. SendSockets : OnConnection(s)
  \/ \E s \in 1 .. SendSockets : OnDisconnect(s)
  \/ \E u \in Users \cup {UserC}, event \in SendEvents : SendToUser(u, event)

SpecSend == InitModule /\ [][NextSend]_vars

\* every event that is addressed to a user, sent to UserB by UserA while the
\* connections of UserB (all but the first FanoutSenders sockets) come and go
NextFanout ==
  \/ \E s \in 1 .. FanoutSockets :
       AuthMiddleware(s, ValidCred(IF s <= FanoutSenders THEN UserA ELSE UserB))
  \/ \E s \in 1 .. FanoutSockets : OnConnection(s)
  \/ \E s \in 1 .. FanoutSockets : OnDisconnect(s)
  \/ \E s \in 1 .. FanoutSenders : OnTyping(s, JsStr(UserB))
  \/ \E s \in 1 .. FanoutSenders : OnStopTyping(s, JsStr(UserB))
  \/ \E s \in 1 .. FanoutSenders : OnMarkRead(s, JsStr(UserB))
  \/ \E m \in markReads, result \in StoreOutcomes : MarkReadDone(m, result)
  \/ \E r \in 1 .. FanoutRequests : RestSend(r, "text", UserA, UserB, "ok")
  \/ \E r \in 1 .. FanoutRequests : RestFound(r, TRUE)
  \/ \E r \in 1 .. FanoutRequests : RestCreate(r, TRUE)
  \/ \E r \in 1 .. FanoutRequests : RestEmit(r)
  \/ \E u \in Users, event \in SendEvents : SendToUser(u, event)

SpecFanout == Init /\ [][NextFanout]_vars

\* the calls of the rate limiter made by the handlers: subject, event,
\* maxRequests, windowMs
RateCalls ==
  {<<UserA, EvTyping, TypingMaxRequests, TypingWindowMs>>,
   <<UserB, EvTyping, TypingMaxRequests, TypingWindowMs>>,
   <<UserA, EvMarkRead, MarkReadMaxRequests, MarkReadWindowMs>>}

\* one call of checkRateLimit, and the record of the calls made in the window
RateCall(c) ==
  /\ LET key == RateKey(c[1], c[2])
         r == checkRateLimit(rateLimits, now, c[1], c[2], c[3], c[4])
         ref == checkRateLimit(shadow.rateLimits, now, c[1], c[2], c[3], c[4])
         fresh == key \notin DOMAIN rateLog \/ now > rateLog[key].openedAt + c[4]
         entry == IF fresh
                    THEN [openedAt |-> now, calls |-> 1, max |-> c[3], windowMs |-> c[4]]
                    ELSE [rateLog[key] EXCEPT !.calls = IF @ <= c[3] THEN @ + 1 ELSE @]
     IN /\ rateLimits' = r.rateLimits
        /\ lastOp' = Op("checkRateLimit", 0, key, r.ok)
        /\ shadow' = [rateLimits |-> ref.rateLimits, ok |-> ref.ok]
        /\ rateLog' = [k \in DOMAIN rateLog \cup {key} |->
                         IF k = key THEN entry ELSE rateLog[k]]
  /\ emitted' = <<>>
  /\ UNCHANGED <<sockState, sockUser, sockErr, sockCred, rooms, onlineUsers, typingTimeouts,
                 timers, now, typingLog, svcVars, envVars, presence>>

NextRateLimit ==
  \/ \E c \in RateCalls : RateCall(c)
  \/ Tick(MaxRateTime, RateTickMs)

SpecRateLimit == Init /\ [][NextRateLimit]_vars

\* connections of one user coming and going while the user types to UserB
NextChurn ==
  \/ \E s \in 1 .. ChurnSockets : AuthMiddleware(s, ValidCred(UserA))
  \/ \E s \in 1 .. ChurnSockets : OnConnection(s)
  \/ \E s \in 1 .. ChurnSockets : OnTypingLogged(s, JsStr(UserB))
  \/ \E s \in 1 .. ChurnSockets : OnDisconnect(s)

SpecChurn == Init /\ [][NextChurn]_vars

\* the typing calls of the rate limiter of two users
SweepCalls ==
  {<<UserA, EvTyping, TypingMaxRequests, TypingWindowMs>>,
   <<UserB, EvTyping, TypingMaxRequests, TypingWindowMs>>}

\* calls of the rate limiter with the periodic sweep running
NextSweep ==
  \/ \E c \in SweepCalls : RateCall(c)
  \/ Sweep
  \/ Tick(MaxSweepTime, SweepTickMs)

SpecSweep == Init /\ [][NextSweep]_vars

\* ------------------------------------------------------------------ claims
\* export const isUserOnline = (userId) => onlineUsers.has(userId)
isUserOnline(userId) == userId \in DOMAIN onlineUsers

\* export const getOnlineUsers = () => [...onlineUsers.keys()]
getOnlineUsers == DOMAIN onlineUsers

\* the pending timers that belong to a socket
TimersOf(ts, s) == {h \in ts : h.sock = s}

\* C1: in every reachable state a user has at most 5 open connections, and
\* when 6 attempts of one user have all been decided and none has closed,
\* exactly 5 are open and 1 is rejected for quota.
C1_AtMostFiveConnections ==
  /\ \A u \in Users :
       Cardinality(existing(sockState, sockUser, u)) <= MaxConnectionsPerUser
  /\ (\A s \in 1 .. MaxConnectionsPerUser + 1 : sockState[s] \in {"open", "rejected"})
       => /\ Cardinality({s \in 1 .. MaxConnectionsPerUser + 1 : sockState[s] = "open"})
               = MaxConnectionsPerUser
          /\ Cardinality({s \in 1 .. MaxConnectionsPerUser + 1 :
                            sockState[s] = "rejected" /\ sockErr[s] = QuotaError}) = 1

\* C2: a user is reported online (isUserOnline, getOnlineUsers) exactly when
\* the user holds at least one open connection.
C2_OnlineIffConnected ==
  \A u \in Users :
    /\ isUserOnline(u) <=> existing(sockState, sockUser, u) # {}
    /\ (u \in getOnlineUsers) <=> existing(sockState, sockUser, u) # {}

\* C3: user_offline{userId} is emitted only when the user has no remaining
\* open connection.
C3_OfflineOnlyWhenLastCloses ==
  \A i \in 1 .. Len(emitted) :
    emitted[i].event = "user_offline"
      => existing(sockState, sockUser, emitted[i].userId) = {}

\* C4: a connection attempt of a user who has 5 (or more) open connections is
\* rejected with the quota error, and the step changes nothing else: the
\* other sockets, the rooms, the timers, the online users and the rate limits
\* stay as they were and nothing is emitted.
C4_Step ==
  \A s \in AllSockets :
    (/\ lastOp'.op = "auth" /\ lastOp'.sock = s
     /\ sockState[s] = "none"
     /\ Cardinality(existing(sockState, sockUser, sockUser'[s])) >= MaxConnectionsPerUser)
    => /\ sockState'[s] = "rejected"
       /\ sockErr'[s] = QuotaError
       /\ \A x \in AllSockets \ {s} :
            sockState'[x] = sockState[x] /\ sockUser'[x] = sockUser[x]
       /\ rooms' = rooms
       /\ onlineUsers' = onlineUsers
       /\ typingTimeouts' = typingTimeouts
       /\ timers' = timers
       /\ rateLimits' = rateLimits
       /\ emitted' = <<>>

C4_QuotaRejectionChangesNothing == [][C4_Step]_vars

\* C4 witness: an attempt was just rejected for quota while five connections
\* of the user, one of them with a typing timer, are open and joined.
C4_Witness ==
  /\ lastOp.op = "auth" /\ ~lastOp.ok
  /\ sockErr[lastOp.sock] = QuotaError
  /\ Cardinality(existing(sockState, sockUser, UserA)) = MaxConnectionsPerUser
  /\ existing(sockState, sockUser, UserA) = Members(rooms, UserA)
  /\ \E s \in existing(sockState, sockUser, UserA) : typingTimeouts[s] \in timers
  /\ isUserOnline(UserA)

\* C5: for each key, from the call that opens a window at time t, the first
\* maxRequests calls with now <= t + windowMs return true and the further
\* calls of the window return false; the first call with now > t + windowMs
\* returns true and opens a fresh window with count 1.
C5_FixedWindow ==
  lastOp.op = "checkRateLimit" =>
    LET key == lastOp.arg
        log == rateLog[key]
    IN /\ lastOp.ok <=> log.calls <= log.max
       /\ log.calls = 1
            => rateLimits[key] = [count |-> 1, resetAt |-> now + log.windowMs]

\* C5 witness: the call after a full window was rejected.
C5_Witness ==
  /\ lastOp.op = "checkRateLimit" /\ ~lastOp.ok
  /\ rateLog[lastOp.arg].calls = rateLog[lastOp.arg].max + 1
  /\ now = rateLog[lastOp.arg].openedAt + rateLog[lastOp.arg].windowMs

\* C6: a checkRateLimit call that returns false leaves rateLimits unchanged:
\* neither count nor resetAt of its key moves.
C6_Step ==
  (lastOp'.op = "checkRateLimit" /\ ~lastOp'.ok) => rateLimits' = rateLimits

C6_RejectionLeavesEntry == [][C6_Step]_vars

\* C6 witness: a call was rejected at the end of its window, where a moved
\* resetAt would delay the next admission.
C6_Witness ==
  /\ lastOp.op = "checkRateLimit" /\ ~lastOp.ok
  /\ rateLimits[lastOp.arg].count = rateLog[lastOp.arg].max
  /\ now = rateLimits[lastOp.arg].resetAt

\* a user_stop_typing{userId} delivered to the sockets joined to room
StopTypingTo(rm, room, userId) == EmitRoom(rm, room, "user_stop_typing", userId)

\* C7: after an admitted typing{receiverId: B} on a socket of A that then
\* sends no typing or stop_typing event and stays connected, no
\* user_stop_typing is emitted for it while the timer is pending, the timer
\* runs 5000 ms after the event, emits one user_stop_typing{A} to the sockets
\* of B and leaves the socket without a timer; no second one follows.
C7_State ==
  \A s \in AllSockets :
    (sockState[s] = "open" /\ typingLog[s].quiet)
      => IF typingTimeouts[s] # NoTimer
           THEN /\ typingLog[s].stops = 0
                /\ TimersOf(timers, s) = {typingTimeouts[s]}
                /\ now <= typingTimeouts[s].deadline
           ELSE /\ typingLog[s].stops = 1
                /\ TimersOf(timers, s) = {}

C7_Step ==
  \A s \in AllSockets :
    /\ (lastOp'.op = "typing" /\ lastOp'.sock = s /\ lastOp'.ok)
         => /\ Len(emitted') = 1
            /\ emitted'[1].event = "user_typing"
            /\ typingTimeouts'[s] =
                 [sock |-> s, userId |-> sockUser[s],
                  receiverId |-> emitted'[1].room,
                  deadline |-> now + TypingTimeoutMs]
    /\ (lastOp'.op = "timer" /\ lastOp'.sock = s)
         => /\ typingTimeouts[s] # NoTimer
            /\ now = typingTimeouts[s].deadline
            /\ emitted' = <<StopTypingTo(rooms, typingTimeouts[s].receiverId,
                                         sockUser[s])>>
            /\ typingTimeouts'[s] = NoTimer

C7_OneStopAtDeadline == []C7_State /\ [][C7_Step]_vars

\* C7 witness: the timer of a quiet socket of A has just run, 5000 ms after
\* its typing event, and its stop was delivered to a socket of B.
C7_Witness ==
  \E s \in AllSockets :
    /\ lastOp.op = "timer" /\ lastOp.sock = s
    /\ sockState[s] = "open" /\ typingLog[s].quiet /\ typingLog[s].stops = 1
    /\ ~typingLog[s].renewed
    /\ now = TypingTimeoutMs
    /\ emitted[1].userId = UserA /\ emitted[1].room = UserB
    /\ emitted[1].to # {}

\* C8: an admitted typing event on a socket with a pending timer cancels that
\* timer and arms a new one for now + 5000 ms without emitting
\* user_stop_typing; the cancelled timer never runs, so the one stop of the
\* socket comes at the new deadline.
C8_State ==
  \A h \in timers : typingTimeouts[h.sock] = h

C8_Step ==
  \A s \in AllSockets :
    (lastOp'.op = "typing" /\ lastOp'.sock = s /\ lastOp'.ok
       /\ typingTimeouts[s] # NoTimer)
    => /\ typingTimeouts'[s].deadline = now + TypingTimeoutMs
       /\ TimersOf(timers', s) = {typingTimeouts'[s]}
       /\ \A i \in 1 .. Len(emitted') : emitted'[i].event # "user_stop_typing"
       /\ typingLog'[s].stops = 0

C8_RenewedTimer == []C8_State /\ [][C8_Step]_vars

\* C8 witness: a timer armed at 0 was renewed at 2500 and the one stop of the
\* socket came at 7500, after the original deadline had passed silently.
C8_Witness ==
  \E s \in AllSockets :
    /\ lastOp.op = "timer" /\ lastOp.sock = s
    /\ typingLog[s].quiet /\ typingLog[s].renewed /\ typingLog[s].stops = 1
    /\ now > TypingTimeoutMs

\* C9: a typing, stop_typing or disconnect event on one socket leaves the
\* timer of every other socket as it was, the sockets of the same user
\* included: neither the registered handle nor the pending timer changes.
C9_Step ==
  \A s2 \in AllSockets :
    (lastOp'.op \in {"typing", "stop_typing", "disconnect"} /\ lastOp'.sock = s2)
    => \A s1 \in AllSockets \ {s2} :
         /\ typingTimeouts'[s1] = typingTimeouts[s1]
         /\ TimersOf(timers', s1) = TimersOf(timers, s1)

C9_TimersIndependent == [][C9_Step]_vars

\* C9 witness: socket 2 has just sent a stop_typing that was handled while
\* socket 1, of the same user, keeps its pending timer.
C9_Witness ==
  /\ lastOp.op = "stop_typing" /\ lastOp.ok /\ lastOp.sock = 2
  /\ sockUser[1] = sockUser[2]
  /\ sockState[1] = "open" /\ sockState[2] = "open"
  /\ typingTimeouts[1] # NoTimer /\ typingTimeouts[1] \in timers
  /\ typingTimeouts[2] = NoTimer

\* C10: a handled stop_typing event from a socket whose timer is pending
\* toward target T cancels the timer, leaves the socket without one and
\* emits user_stop_typing to the sockets of T.
C10_Step ==
  \A s \in AllSockets :
    (lastOp'.op = "stop_typing" /\ lastOp'.sock = s /\ lastOp'.ok
       /\ typingTimeouts[s] # NoTimer)
    => /\ typingTimeouts'[s] = NoTimer
       /\ TimersOf(timers', s) = {}
       /\ emitted' = <<StopTypingTo(rooms, typingTimeouts[s].receiverId, sockUser[s])>>

C10_StopReachesTarget == [][C10_Step]_vars

\* export const getSocketMetrics = () => ({...})
getSocketMetrics ==
  IF ~io THEN [totalConnections |-> 0, onlineUsers |-> 0, rateLimitEntries |-> 0,
               typingTimeouts |-> 0, null |-> TRUE] ELSE
  [null |-> FALSE, totalConnections |-> Cardinality(OpenSockets(sockState)),
   onlineUsers |-> Cardinality(DOMAIN onlineUsers),
   rateLimitEntries |-> Cardinality(DOMAIN rateLimits),
   typingTimeouts |-> Cardinality({s \in AllSockets : typingTimeouts[s] # NoTimer})]

\* the events of the typing indicator
TypingEvents == {"user_typing", "user_stop_typing"}

C11_State ==
  /\ \A s \in AllSockets :
       sockState[s] = "closed" =>
         /\ typingTimeouts[TimeoutKey(s)] = NoTimer
         /\ TimersOf(timers, s) = {}
  /\ getSocketMetrics.typingTimeouts =
       Cardinality({s \in OpenSockets(sockState) : typingTimeouts[s] # NoTimer})

C11_Step ==
  /\ lastOp'.op = "disconnect" =>
       /\ typingTimeouts'[lastOp'.sock] = NoTimer
       /\ timers' = timers \ TimersOf(timers, lastOp'.sock)
       /\ \A i \in 1 .. Len(emitted') : emitted'[i].event \notin TypingEvents
  /\ \A i \in 1 .. Len(emitted') :
       emitted'[i].event \in TypingEvents =>
         /\ lastOp'.op \in {"typing", "stop_typing", "timer"}
         /\ sockState[lastOp'.sock] = "open"
         /\ sockState'[lastOp'.sock] = "open"

\* C11: a disconnect cancels the pending typing timer of the connection and
\* removes its typingTimeouts entry, so that the typingTimeouts metric counts
\* only open connections; a closed connection has no timer left, and every
\* user_typing / user_stop_typing comes from a handler or timer of a
\* connection that is open
C11_DisconnectCancelsTimer == []C11_State /\ [][C11_Step]_vars

\* a connection was closed while its typing timer was pending
C11_Witness ==
  /\ lastOp.op = "disconnect"
  /\ lastOp.arg = "typing"
  /\ sockState[lastOp.sock] = "closed"

\* the users that hold at least one open connection
ConnectedUsers == {sockUser[s] : s \in OpenSockets(sockState)}

\* C12: the connection handler broadcasts user_online{U} to all open
\* connections and then sends the new connection an online_users snapshot
\* that equals the set of users holding at least one open connection, the
\* new user included
C12_SnapshotIsConnectedUsers ==
  lastOp.op = "connection" =>
    /\ sockUser[lastOp.sock] \in ConnectedUsers
    /\ emitted = <<EmitAll(sockState, "user_online", sockUser[lastOp.sock]),
                   EmitSocket(lastOp.sock, "online_users", ConnectedUsers)>>

\* the state the gateway keeps about connections
Registries == <<rooms, onlineUsers, typingTimeouts, timers, rateLimits>>

C13_State ==
  \A s \in AllSockets :
    sockState[s] = "rejected" =>
      /\ sockErr[s] # ""
      /\ \A room \in Users : s \notin Members(rooms, room)
      /\ \A u \in DOMAIN onlineUsers : onlineUsers[u] # s
      /\ typingTimeouts[s] = NoTimer

C13_Step ==
  /\ (lastOp'.op = "auth" /\ ~lastOp'.ok) =>
       /\ sockState'[lastOp'.sock] = "rejected"
       /\ OpenSockets(sockState') = OpenSockets(sockState)
       /\ Registries' = Registries
       /\ svcVars' = svcVars
       /\ emitted' = <<>>
  /\ \A s \in AllSockets : sockState[s] = "rejected" => sockState'[s] = "rejected"

\* C13: a handshake that fails authentication or the quota test creates no
\* state and emits nothing: rooms, onlineUsers, typingTimeouts, the timers and
\* rateLimits are unchanged, the set of open connections is unchanged, and the
\* rejected socket never becomes a connection
C13_FailedAttemptLeavesNoTrace == []C13_State /\ [][C13_Step]_vars

\* handshakes were rejected for bad credentials and for the quota while
\* connections of the user were open
C13_Witness ==
  /\ \E s \in AllSockets : sockState[s] = "rejected" /\ sockErr[s] = QuotaError
  /\ \E s \in AllSockets : sockState[s] = "rejected" /\ sockErr[s] = "Authentication failed"
  /\ lastOp.op = "auth" /\ ~lastOp.ok
  /\ onlineUsers # <<>>

\* the sockets whose handshake was rejected
Rejected == {s \in AllSockets : sockState[s] = "rejected"}

\* C14: handshakes rejected for different causes (no cookie header, no token
\* in the cookie, invalid signature, expired token, malformed id in the
\* claims, quota) are rejected with different reasons, and a handshake with
\* bad credentials is never rejected with the quota's reason
C14_ReasonsDistinguishable ==
  /\ \A s \in Rejected : sockCred[s] # "" => sockErr[s] # QuotaError
  /\ \A s1, s2 \in Rejected : sockCred[s1] # sockCred[s2] => sockErr[s1] # sockErr[s2]

\* C15: a malformed payload on typing, stop_typing or mark_read (no payload,
\* a payload of the wrong type, an ill-formed id) terminates neither the
\* process nor the connection that sent it
C15_MalformedPayloadHarmless ==
  /\ procState = "running"
  /\ (lastOp.op \in PayloadEvents /\ lastOp.arg \in {"invalid", "throws"}) =>
       sockState[lastOp.sock] = "open"

\* the replies of the mark_read handler
MarkReadReplies == {"mark_read_success", "mark_read_error"}

\* the events of emitted that a step handed to socket.emit of socket s
IsReplyTo(e, st, s) ==
  /\ e.event \in MarkReadReplies
  /\ e.kind = "socket"
  /\ e.to = {s} \cap OpenSockets(st)

C16_Step ==
  /\ lastOp'.op = "mark_read" =>
       /\ sockState' = sockState
       /\ IF lastOp'.ok
            THEN /\ emitted' = <<>>
                 /\ \E m \in markReads' \ markReads :
                      /\ markReads' = markReads \cup {m}
                      /\ m.sock = lastOp'.sock
                      /\ m.userId = sockUser[m.sock]
                      /\ isValidMongoId(JsStr(m.senderId))
            ELSE /\ markReads' = markReads
                 /\ Len(emitted') = 1
                 /\ IsReplyTo(emitted'[1], sockState, lastOp'.sock)
                 /\ emitted'[1].event = "mark_read_error"
                 /\ emitted'[1].error \in {"Rate limit exceeded", "Invalid sender ID"}
  /\ lastOp'.op = "mark_read_done" =>
       /\ sockState' = sockState
       /\ \E m \in markReads :
            /\ markReads' = markReads \ {m}
            /\ m.sock = lastOp'.sock
            /\ IF lastOp'.ok
                 THEN /\ Len(emitted') = 2
                      /\ emitted'[1] \in
                           {MessagesRead(rooms, m.senderId, m.userId, c) : c \in 0 .. 1}
                      /\ IsReplyTo(emitted'[2], sockState, m.sock)
                      /\ emitted'[2].event = "mark_read_success"
                      /\ emitted'[2].count = emitted'[1].count
                 ELSE /\ Len(emitted') = 1
                      /\ IsReplyTo(emitted'[1], sockState, m.sock)
                      /\ emitted'[1].event = "mark_read_error"
  /\ markReads' # markReads => lastOp'.op \in {"mark_read", "mark_read_done"}
  /\ \A i \in 1 .. Len(emitted') :
       /\ emitted'[i].event \in MarkReadReplies =>
            lastOp'.op \in {"mark_read", "mark_read_done"}
       /\ emitted'[i].event = "messages_read" =>
            lastOp'.op = "mark_read_done" /\ lastOp'.ok

\* C16: a mark_read{senderId} event gets exactly one reply on its own socket:
\* a rate-limited event or one with an invalid senderId is answered at once
\* with mark_read_error and never reaches the store; any other event awaits
\* the store exactly once and is then answered with mark_read_success after
\* messages_read{readBy, count} went to the sender's room, or, if the store
\* failed, with mark_read_error and no messages_read; the handler never
\* closes the connection
C16_OneReplyPerMarkRead == [][C16_Step]_vars

\* the store failed for a mark_read after another had been rate limited
C16_Witness ==
  /\ lastOp.op = "mark_read_done"
  /\ ~lastOp.ok
  /\ sockState[lastOp.sock] = "open"
  /\ \E k \in DOMAIN rateLimits : rateLimits[k].count = MarkReadMaxRequests

C17_Step ==
  lastOp'.op \in PayloadEvents =>
    LET key == RateKey(sockUser[lastOp'.sock], lastOp'.op)
        consumed ==
          /\ key \in DOMAIN rateLimits'
          /\ IF key \in DOMAIN rateLimits /\ now <= rateLimits[key].resetAt
               THEN rateLimits'[key].count = rateLimits[key].count + 1
               ELSE rateLimits'[key].count = 1
        rejected ==
          /\ lastOp'.arg = "rate_limited"
          /\ Registries' = Registries
          /\ markReads' = markReads
    IN consumed \/ rejected

\* C17: every typing, stop_typing and mark_read event passes through the rate
\* limiter before anything else: it either consumes one slot of the window of
\* its (user, event) key or is rejected by the limiter without effect
C17_EveryEventRateLimited == [][C17_Step]_vars

\* C18: an event rejected by the rate limiter (typing as well as mark_read)
\* is answered with one error event, sent to the originating connection only
C18_RateLimitAnswered ==
  lastOp.arg = "rate_limited" =>
    /\ Len(emitted) = 1
    /\ emitted[1].kind = "socket"
    /\ emitted[1].to = {lastOp.sock}
    /\ emitted[1].error # ""

\* the steps of the REST handlers that emit
RestEmitters == {"rest_emit"}

C19_Step ==
  /\ lastOp'.op = "send_message" =>
       /\ emitted' = <<>>
       /\ Registries' = Registries
       /\ svcVars' = svcVars
       /\ sockState' = sockState
       /\ typingLog' = typingLog
  /\ \A i \in 1 .. Len(emitted') :
       emitted'[i].event = "new_message" => lastOp'.op \in RestEmitters

\* C19: a send_message event is ignored: it stores no message, emits nothing,
\* consumes no rate-limit slot and changes no typing or presence state; no
\* handler of the gateway emits new_message, only the REST send path does
C19_SendMessageIgnored == [][C19_Step]_vars

\* send_message arrived while the connection had a typing timer pending and
\* rate-limit windows open
C19_Witness ==
  /\ lastOp.op = "send_message"
  /\ typingTimeouts[lastOp.sock] # NoTimer
  /\ rateLimits # <<>>
  /\ markReads # {}

C20_Step ==
  /\ \A i \in 1 .. Len(emitted') :
       emitted'[i].event = "new_message" =>
         /\ Len(emitted') = 1
         /\ lastOp'.op \in RestEmitters
         /\ \E r \in Requests :
              /\ rest[r].pc = "created"
              /\ rest'[r].status = 201
              /\ findById(rest[r].receiverId) = "found"
              /\ MessageOf(r, rest[r]) \in messages
              /\ emitted'[i].message = r
              /\ emitted'[i].kind = "room"
              /\ emitted'[i].room = rest[r].receiverId
              /\ emitted'[i].to = Members(rooms, rest[r].receiverId)
              /\ emitted'[i].userId = rest[r].sender
  /\ \A r \in Requests :
       /\ (rest[r].pc = "done" \/ rest'[r].status \in {400, 404, 500}) =>
            \A i \in 1 .. Len(emitted') : emitted'[i].message # r
       /\ rest[r].pc = "done" => rest'[r] = rest[r]
       /\ rest'[r].status \in {400, 404, 500} =>
            MessageOf(r, rest'[r]) \notin messages'

\* C20: the REST send path emits new_message only after Message.create has
\* stored the record, once, and only to the room of the message's receiver;
\* a request whose receiver does not exist (404) or whose persistence fails
\* (500) emits no new_message, neither then nor later
C20_NewMessageAfterPersist == [][C20_Step]_vars

\* a stored message was delivered to the receiver's connection while another
\* request had failed
C20_Witness ==
  /\ lastOp.op = "rest_emit"
  /\ Len(emitted) = 1
  /\ emitted[1].to # {}
  /\ \E r \in Requests : rest[r].status = 404 \/ rest[r].status = 500

AddressedEvents ==
  {"user_typing", "user_stop_typing", "messages_read", "new_message"} \cup SendEvents

\* the open connections of a user
ConnectionsOf(userId) == {s \in OpenSockets(sockState) : sockUser[s] = userId}

\* C22: an event addressed to user U (user_typing, user_stop_typing,
\* messages_read, new_message, an event of sendToUser) is handed to every
\* connection of U that is open when it is emitted and to no other connection
C22_FanOut ==
  /\ \A u \in Users : Members(rooms, u) = ConnectionsOf(u)
  /\ \A i \in 1 .. Len(emitted) :
       emitted[i].event \in AddressedEvents =>
         /\ emitted[i].kind = "room"
         /\ emitted[i].to = ConnectionsOf(emitted[i].room)

\* an event went to the two open connections of a user while another user
\* had a connection open
C22_Witness ==
  \E i \in 1 .. Len(emitted) :
    /\ emitted[i].event \in AddressedEvents
    /\ Cardinality(emitted[i].to) = 2
    /\ Cardinality(OpenSockets(sockState)) = 3

C23_State ==
  \A s \in AllSockets :
    /\ Cardinality(TimersOf(timers, s)) <= 1
    /\ TimersOf(timers, s) =
         IF typingTimeouts[s] = NoTimer THEN {} ELSE {typingTimeouts[s]}

C23_Step ==
  (lastOp'.op = "typing" /\ lastOp'.ok) =>
    LET s == lastOp'.sock IN
    /\ typingTimeouts'[s] # NoTimer
    /\ TimersOf(timers', s) = {typingTimeouts'[s]}
    /\ typingTimeouts'[s].deadline = now + TypingTimeoutMs
    /\ \A h \in TimersOf(timers, s) : h # typingTimeouts'[s] => h \notin timers'

\* C23: in every reachable state a connection has at most one pending typing
\* timer, the one registered in typingTimeouts; when a typing event arms a
\* timer, the timer armed before for the connection is no longer pending
C23_AtMostOneTimer == []C23_State /\ [][C23_Step]_vars

\* a typing event replaced the pending timer of its connection while the
\* other connection had a timer pending too
C23_Witness ==
  /\ lastOp.op = "typing"
  /\ lastOp.ok
  /\ typingLog[lastOp.sock].renewed
  /\ Cardinality(timers) = 2
  /\ now > 0

C24_Step ==
  /\ (lastOp'.op = "typing" /\ lastOp'.arg = "invalid") =>
       /\ emitted' = <<>>
       /\ typingTimeouts' = typingTimeouts
       /\ timers' = timers
       /\ rateLimits' = rateLimits
       /\ sockState' = sockState
  /\ \A i \in 1 .. Len(emitted') :
       emitted'[i].event = "user_typing" =>
         /\ Len(emitted'[i].room) = MongoIdLen
         /\ \A j \in 1 .. MongoIdLen :
              SubSeq(emitted'[i].room, j, j) \in HexChars

\* C24: a typing event whose receiverId is not a string of 24 hexadecimal
\* digits has no effect: nothing is emitted (no user_typing, no error event),
\* and the pending timer and its target are unchanged; user_typing is only
\* ever emitted to a room named by a well-formed id
C24_InvalidTypingIgnored == [][C24_Step]_vars

\* a typing event with an ill-formed receiverId arrived while the
\* connection's timer was pending
C24_Witness ==
  /\ lastOp.op = "typing"
  /\ lastOp.arg = "invalid"
  /\ typingTimeouts[lastOp.sock] # NoTimer
  /\ typingTimeouts[lastOp.sock] \in timers

C25_State ==
  \A k \in DOMAIN rateLimits :
    now <= rateLimits[k].resetAt + SweepGraceMs + SweepIntervalMs

C25_Step ==
  lastOp'.op = "sweep" =>
    /\ \A k \in DOMAIN rateLimits :
         IF now > rateLimits[k].resetAt + SweepGraceMs
           THEN k \notin DOMAIN rateLimits'
           ELSE k \in DOMAIN rateLimits' /\ rateLimits'[k] = rateLimits[k]
    /\ DOMAIN rateLimits' \subseteq DOMAIN rateLimits

\* C25: a sweep removes exactly the entries whose window expired more than
\* the 60 s grace period ago and leaves the others as they are; with the
\* sweep running every 60 s, no entry outlives the end of its window by more
\* than grace period plus interval, so entries that are no longer accessed
\* do not accumulate
C25_SweepBoundsEntries == []C25_State /\ [][C25_Step]_vars

\* a sweep removed one entry and kept another whose window had expired
\* exactly the grace period ago
C25_Witness ==
  /\ lastOp.op = "sweep"
  /\ DOMAIN rateLog # DOMAIN rateLimits
  /\ \E k \in DOMAIN rateLimits : now = rateLimits[k].resetAt + SweepGraceMs

\* C29: the sweep is invisible to the callers of the rate limiter: every call
\* returns what it returns in the run of the same calls without sweeps, every
\* entry the limiter holds is the entry of that run, and an entry that only
\* that run holds has expired, so that the next call opens a fresh window in
\* both
C29_SweepInvisible ==
  /\ lastOp.op = "checkRateLimit" => lastOp.ok = shadow.ok
  /\ DOMAIN rateLimits \subseteq DOMAIN shadow.rateLimits
  /\ \A k \in DOMAIN shadow.rateLimits :
       IF k \in DOMAIN rateLimits
         THEN rateLimits[k] = shadow.rateLimits[k]
         ELSE now > shadow.rateLimits[k].resetAt

\* a call was rejected after a sweep had removed the entry of another key
C29_Witness ==
  /\ lastOp.op = "checkRateLimit"
  /\ ~lastOp.ok
  /\ DOMAIN rateLimits # DOMAIN shadow.rateLimits

\* C26: the events of one user and one event type that are admitted within
\* one window never exceed maxRequests, counted over all connections of the
\* user, also when one of the user's connections disconnects while another
\* stays open
C26_PerUserLimit ==
  \A k \in DOMAIN rateLog : rateLog[k].calls <= rateLog[k].max

C27_Step ==
  \A i \in 1 .. Len(emitted') :
    emitted'[i].event = "user_offline" =>
      \A o \in emitted'[i].to : presence[o][emitted'[i].userId] = "user_online"

\* C27: for every user and every connection that observes the broadcasts, the
\* presence events alternate: a user_offline{u} is handed only to connections
\* whose last presence event about u was user_online{u} (or a snapshot
\* listing u)
C27_PresenceAlternates == [][C27_Step]_vars

C28_Step ==
  \A s \in AllSockets :
    (typingTimeouts[s] # NoTimer /\ sockState'[s] = "open")
    => LET T == typingTimeouts[s].receiverId IN
       \/ typingTimeouts'[s] # NoTimer /\ typingTimeouts'[s].receiverId = T
       \/ \E i \in 1 .. Len(emitted') :
            /\ emitted'[i].event = "user_stop_typing"
            /\ emitted'[i].room = T
            /\ emitted'[i].userId = sockUser[s]

\* C28: while the originating connection stays open, a user_typing{U} sent to
\* a target T is followed by a user_stop_typing{U} sent to the same T: as long
\* as the stop is owed the connection keeps a timer pending toward T, and the
\* step that ends the episode (timer, stop_typing with any receiverId, typing
\* toward another target) emits the stop to T
C28_TypingAlwaysStopped == [][C28_Step]_vars

\* the subject of a rate-limit key: the user id in front of the colon
Subject(key) == SubSeq(key, 1, MongoIdLen)

C30_Step ==
  lastOp'.op = "disconnect" =>
    /\ DOMAIN rateLimits' \subseteq DOMAIN rateLimits
    /\ \A k \in DOMAIN rateLimits :
         Subject(k) # sockUser[lastOp'.sock]
           => k \in DOMAIN rateLimits' /\ rateLimits'[k] = rateLimits[k]

\* C30: the rate-limit cleanup of a disconnect deletes only entries whose
\* subject is the disconnecting user: every entry of another user, of every
\* event kind, is still there with the same count and resetAt, and no entry
\* is added
C30_CleanupOnlyOwnEntries == [][C30_Step]_vars

\* the connection of UserB has just disconnected while UserA holds a typing
\* and a mark_read entry
C30_Witness ==
  /\ lastOp.op = "disconnect"
  /\ sockUser[lastOp.sock] = UserB
  /\ {RateKey(UserA, EvTyping), RateKey(UserA, EvMarkRead)} \subseteq DOMAIN rateLimits
====
